---- MODULE Spec2Model ----
(***************************************************************************)
(* Model of the Gemini image client of kazibee/image-gen                   *)
(* (src/src/image-gen-client.ts and its auth module).                      *)
(*                                                                         *)
(* JavaScript values are represented as follows.                           *)
(*  - An object is a record; an optional field that is missing is missing  *)
(*    from the record's DOMAIN (Has(o, f) tests presence).                 *)
(*  - A string the code inspects (trim, toLowerCase, includes,             *)
(*    encodeURIComponent, base64) is a sequence of one-character strings.  *)
(*    The empty string is << >>.  A string the code only passes along      *)
(*    (prompt, path, MIME type) is a TLA+ string.                          *)
(*  - A call of a client method is a process: call[c].pc is the await      *)
(*    point the call is suspended at.                                      *)
(***************************************************************************)
EXTENDS Integers, Sequences, FiniteSets, TLC

VARIABLES config, fs, call, got, xin, xout

vars == <<config, fs, call, got, xin, xout>>

-----------------------------------------------------------------------------
(* Bounds of the model.                                                    *)

\* Concurrent calls on one client in SpecConc.
NumCalls == 2
\* Longest parts sequence of a response given to the extractor in SpecExtract.
MaxParts == 3
\* Longest models array of a discovery response in SpecList.
MaxModels == 2
\* Every list of reference paths up to this length is tried.
MaxShortRefs == 2
\* Reference lists are tried up to MaxRefs + ExtraRefs paths.
ExtraRefs == 1

-----------------------------------------------------------------------------
(* Objects and strings.                                                    *)

Has(o, f) == f \in DOMAIN o

EmptyObj == [k \in {} |-> TRUE]

\* { ...(cond ? {f: v} : {}) }
SpreadIf(cond, obj) == IF cond THEN obj ELSE EmptyObj

WhiteSpace == {" ", "\t", "\n"}

RECURSIVE TrimStart(_)
TrimStart(s) ==
  IF s # << >> /\ Head(s) \in WhiteSpace THEN TrimStart(Tail(s)) ELSE s

RECURSIVE TrimEnd(_)
TrimEnd(s) ==
  IF s # << >> /\ s[Len(s)] \in WhiteSpace
    THEN TrimEnd(SubSeq(s, 1, Len(s) - 1))
    ELSE s

\* String.prototype.trim
Trim(s) == TrimEnd(TrimStart(s))

UpperCase ==
  <<"A", "B", "C", "D", "E", "F", "G", "H", "I", "J", "K", "L", "M",
    "N", "O", "P", "Q", "R", "S", "T", "U", "V", "W", "X", "Y", "Z">>

LowerCase ==
  <<"a", "b", "c", "d", "e", "f", "g", "h", "i", "j", "k", "l", "m",
    "n", "o", "p", "q", "r", "s", "t", "u", "v", "w", "x", "y", "z">>

LowerChar(ch) ==
  IF \E i \in 1..Len(UpperCase) : UpperCase[i] = ch
    THEN LowerCase[CHOOSE i \in 1..Len(UpperCase) : UpperCase[i] = ch]
    ELSE ch

\* String.prototype.toLowerCase
ToLowerCase(s) == [i \in 1..Len(s) |-> LowerChar(s[i])]

\* String.prototype.includes
Includes(s, sub) ==
  \E k \in 0..(Len(s) - Len(sub)) : SubSeq(s, k + 1, k + Len(sub)) = sub

Digits == <<"0", "1", "2", "3", "4", "5", "6", "7", "8", "9">>

SeqRange(s) == {s[i] : i \in 1..Len(s)}

\* Characters encodeURIComponent leaves as they are.
UriUnreserved ==
  SeqRange(UpperCase) \cup SeqRange(LowerCase) \cup SeqRange(Digits)
    \cup {"-", "_", ".", "!", "~", "*", "'", "(", ")"}

\* The percent escapes of the reserved characters the model's strings use.
PercentEscape(ch) ==
  CASE ch = " " -> <<"%", "2", "0">>
    [] ch = "/" -> <<"%", "2", "F">>
    [] ch = ":" -> <<"%", "3", "A">>
    [] ch = "=" -> <<"%", "3", "D">>

RECURSIVE encodeURIComponent(_)
encodeURIComponent(s) ==
  IF s = << >> THEN << >>
  ELSE (IF Head(s) \in UriUnreserved THEN <<Head(s)>> ELSE PercentEscape(Head(s)))
         \o encodeURIComponent(Tail(s))

\* JSON.stringify of a parsed JSON value: the text is determined by the value,
\* so it is kept as the value it serializes.
JSONStringify(v) == [serialized |-> v]

-----------------------------------------------------------------------------
(* Base64, as Buffer.toString('base64') and Buffer.from(s, 'base64').      *)

Base64Alphabet ==
  UpperCase \o LowerCase \o Digits \o <<"+", "/">>

Sextet(ch) == (CHOOSE i \in 1..64 : Base64Alphabet[i] = ch) - 1

B64(n) == Base64Alphabet[n + 1]

RECURSIVE Base64Encode(_)
Base64Encode(bytes) ==
  CASE Len(bytes) = 0 -> << >>
    [] Len(bytes) = 1 ->
         <<B64(bytes[1] \div 4), B64((bytes[1] % 4) * 16), "=", "=">>
    [] Len(bytes) = 2 ->
         <<B64(bytes[1] \div 4),
           B64((bytes[1] % 4) * 16 + bytes[2] \div 16),
           B64((bytes[2] % 16) * 4), "=">>
    [] OTHER ->
         <<B64(bytes[1] \div 4),
           B64((bytes[1] % 4) * 16 + bytes[2] \div 16),
           B64((bytes[2] % 16) * 4 + bytes[3] \div 64),
           B64(bytes[3] % 64)>>
           \o Base64Encode(SubSeq(bytes, 4, Len(bytes)))

\* The sextets of a base64 text up to its padding.
RECURSIVE Sextets(_)
Sextets(s) ==
  IF s = << >> \/ Head(s) \notin SeqRange(Base64Alphabet) THEN << >>
  ELSE <<Sextet(Head(s))>> \o Sextets(Tail(s))

RECURSIVE SextetsToBytes(_)
SextetsToBytes(q) ==
  CASE Len(q) < 2 -> << >>
    [] Len(q) = 2 -> <<q[1] * 4 + q[2] \div 16>>
    [] Len(q) = 3 ->
         <<q[1] * 4 + q[2] \div 16, (q[2] % 16) * 16 + q[3] \div 4>>
    [] OTHER ->
         <<q[1] * 4 + q[2] \div 16,
           (q[2] % 16) * 16 + q[3] \div 4,
           (q[3] % 4) * 64 + q[4]>>
           \o SextetsToBytes(SubSeq(q, 5, Len(q)))

Base64Decode(s) == SextetsToBytes(Sextets(s))

-----------------------------------------------------------------------------
(* Response extraction.                                                    *)

\* Array.prototype.find, as the index of the element found (0: undefined);
\* hits[i] is what the callback returns for element i.
Find(hits) ==
  IF \E i \in 1..Len(hits) : hits[i]
    THEN CHOOSE i \in 1..Len(hits) : hits[i] /\ \A j \in 1..(i - 1) : ~hits[j]
    ELSE 0

\* A mutant of HasInlineData: any inlineData counts, empty or not.
HasInlineDataField(part) == Has(part, "inlineData")

\* part.inlineData?.data, as a condition
HasInlineData(part) ==
  /\ Has(part, "inlineData")
  /\ Has(part.inlineData, "data")
  /\ part.inlineData.data # << >>

\* A mutant of HasText: the text is not trimmed.
HasTextUntrimmed(part) ==
  /\ Has(part, "text")
  /\ Len(part.text) > 0

\* typeof part.text === 'string' && part.text.trim().length > 0
HasText(part) ==
  /\ Has(part, "text")
  /\ Len(Trim(part.text)) > 0

\* data.candidates?.[0]?.content?.parts ?? []
ResponseParts(data) ==
  IF /\ Has(data, "candidates")
     /\ Len(data.candidates) > 0
     /\ Has(data.candidates[1], "content")
     /\ Has(data.candidates[1].content, "parts")
    THEN data.candidates[1].content.parts
    ELSE << >>

extractImageFromResponse(data, model, prompt) ==
  LET parts == ResponseParts(data)
      imageAt == Find([i \in 1..Len(parts) |-> HasInlineData(parts[i])])
      textAt == Find([i \in 1..Len(parts) |-> HasText(parts[i])])
  IN  IF \/ imageAt = 0
         \/ ~HasInlineData(parts[imageAt])
         \/ ~Has(parts[imageAt].inlineData, "mimeType")
         \/ parts[imageAt].inlineData.mimeType = ""
        THEN [kind |-> "throw",
              error |-> [kind |-> "noimage", model |-> model,
                         raw |-> JSONStringify(data)]]
        ELSE [kind |-> "ok",
              value |->
                [mimeType |-> parts[imageAt].inlineData.mimeType,
                 base64Data |-> parts[imageAt].inlineData.data,
                 model |-> model,
                 prompt |-> prompt]
                @@ SpreadIf(textAt # 0, [textResponse |-> parts[textAt].text])]

-----------------------------------------------------------------------------
(* Configuration (auth module).                                            *)

API_BASE == "https://generativelanguage.googleapis.com/v1beta"

DEFAULT_IMAGE_MODEL ==
  <<"g", "e", "m", "i", "n", "i", "-", "3", "-", "p", "r", "o", "-",
    "i", "m", "a", "g", "e", "-", "p", "r", "e", "v", "i", "e", "w">>

\* getAuthConfig, for an environment that has GEMINI_API_KEY (without the key
\* it throws and no client exists).
getAuthConfig(env) ==
  [apiKey |-> env.GEMINI_API_KEY,
   model |->
     IF Has(env, "GEMINI_IMAGE_MODEL") /\ Trim(env.GEMINI_IMAGE_MODEL) # << >>
       THEN Trim(env.GEMINI_IMAGE_MODEL)
       ELSE DEFAULT_IMAGE_MODEL]

\* Environments the client is constructed from.
Envs ==
  {[GEMINI_API_KEY |-> <<"k", "=", "1">>],
   [GEMINI_API_KEY |-> <<"k", "=", "1">>, GEMINI_IMAGE_MODEL |-> <<" ">>],
   [GEMINI_API_KEY |-> <<"k", "=", "1">>,
    GEMINI_IMAGE_MODEL |-> <<" ", "m", "1", " ">>]}

-----------------------------------------------------------------------------
(* The file system: Bun.file(path).exists(), .type, .arrayBuffer() and     *)
(* Bun.write(path, bytes).                                                 *)

Paths == {"/in/a.png", "/in/b.jpg", "/in/c", "/in/none.png", "/out/o.png"}

\* BunFile.type: the MIME type Bun derives from the path's extension.
FileType(path) ==
  CASE path = "/in/a.png" -> "image/png"
    [] path = "/in/b.jpg" -> "image/jpeg"
    [] path = "/in/none.png" -> "image/png"
    [] path = "/out/o.png" -> "image/png"
    [] OTHER -> ""

NoFile == [exists |-> FALSE, bytes |-> << >>]

InitialFiles ==
  [p \in Paths |->
     CASE p = "/in/a.png" -> [exists |-> TRUE, bytes |-> <<65>>]
       [] p = "/in/b.jpg" -> [exists |-> TRUE, bytes |-> <<255, 216>>]
       [] p = "/in/c" -> [exists |-> TRUE, bytes |-> <<1, 2, 3, 4>>]
       [] OTHER -> NoFile]

\* A mutant of FileExists: the existence check is skipped.
FileExistsUnchecked(path) == TRUE

\* await Bun.file(path).exists()
FileExists(path) == fs[path].exists

-----------------------------------------------------------------------------
(* Request building.                                                       *)

\* A mutant of MaxRefs: one reference more is accepted.
MaxRefsOffByOne == 14 + 1

\* The most reference images generateFromReferences accepts.
MaxRefs == 14

\* A mutant of ResolveModel: the override is not trimmed.
ResolveModelUntrimmed(options) ==
  IF Has(options, "model") /\ options.model # << >>
    THEN options.model
    ELSE config.model

\* options.model?.trim() || config.model
ResolveModel(options) ==
  IF Has(options, "model") /\ Trim(options.model) # << >>
    THEN Trim(options.model)
    ELSE config.model

\* options.inputMimeType || file.type || 'image/png'
InputMimeType(options, path) ==
  IF Has(options, "inputMimeType") /\ options.inputMimeType # ""
    THEN options.inputMimeType
  ELSE IF FileType(path) # "" THEN FileType(path)
  ELSE "image/png"

\* A mutant of ResponseModalities: the text is asked for only when
\* includeText is true, so leaving it unset drops TEXT.
ResponseModalitiesFalsy(options) ==
  IF Has(options, "includeText") /\ options.includeText = TRUE
    THEN <<"IMAGE", "TEXT">>
    ELSE <<"IMAGE">>

\* options.includeText === false ? ['IMAGE'] : ['IMAGE', 'TEXT']
ResponseModalities(options) ==
  IF Has(options, "includeText") /\ options.includeText = FALSE
    THEN <<"IMAGE">>
    ELSE <<"IMAGE", "TEXT">>

ImageConfig(options) ==
  SpreadIf(Has(options, "aspectRatio"), [aspectRatio |-> options.aspectRatio])
    @@ SpreadIf(Has(options, "imageSize"), [imageSize |-> options.imageSize])

GenerationConfig(options) ==
  [responseModalities |-> ResponseModalities(options),
   imageConfig |-> ImageConfig(options)]
    @@ SpreadIf(Has(options, "mimeType"), [responseMimeType |-> options.mimeType])

\* ...(options.enableSearchGrounding ? { tools: [{ google_search: {} }] } : {})
Tools(options) ==
  SpreadIf(Has(options, "enableSearchGrounding") /\ options.enableSearchGrounding,
           [tools |-> <<[google_search |-> EmptyObj]>>])

\* The body generateImageBase64 builds.
generateBody(prompt, options) ==
  [contents |-> <<[parts |-> <<[text |-> prompt]>>]>>,
   generationConfig |-> GenerationConfig(options)]
    @@ Tools(options)

\* The body editImage builds.
editBody(prompt, inputMimeType, inputBase64, options) ==
  [contents |->
     <<[parts |->
          <<[text |-> prompt],
            [inlineData |-> [mimeType |-> inputMimeType, data |-> inputBase64]]>>]>>,
   generationConfig |-> GenerationConfig(options)]
    @@ Tools(options)

\* A mutant of referencesBody: the text part comes after the references.
referencesBodyTextLast(prompt, inlineParts, options) ==
  [contents |-> <<[parts |-> inlineParts \o <<[text |-> prompt]>>]>>,
   generationConfig |-> GenerationConfig(options)]
    @@ Tools(options)

\* The body generateFromReferences builds.
referencesBody(prompt, inlineParts, options) ==
  [contents |-> <<[parts |-> <<[text |-> prompt]>> \o inlineParts]>>,
   generationConfig |-> GenerationConfig(options)]
    @@ Tools(options)

\* The fetch geminiGenerateContent issues.
GenerateContentRequest(model, body) ==
  [method |-> "POST",
   url |-> [base |-> API_BASE,
            path |-> "/models/{model}:generateContent",
            model |-> encodeURIComponent(model),
            key |-> encodeURIComponent(config.apiKey)],
   headers |-> [contentType |-> "application/json", xGoogApiKey |-> config.apiKey],
   body |-> JSONStringify(body)]

\* The fetch listModels issues.
ListModelsRequest(options) ==
  [method |-> "GET",
   url |-> [base |-> API_BASE,
            path |-> "/models",
            params |-> SpreadIf(Has(options, "pageSize") /\ options.pageSize # 0,
                                [pageSize |-> options.pageSize]),
            key |-> encodeURIComponent(config.apiKey)]]

-----------------------------------------------------------------------------
(* Model discovery.                                                        *)

MapModel(m) ==
  [name |-> IF Has(m, "name") THEN m.name ELSE << >>,
   supportedGenerationMethods |->
     IF Has(m, "supportedGenerationMethods")
       THEN m.supportedGenerationMethods ELSE << >>]
    @@ SpreadIf(Has(m, "displayName"), [displayName |-> m.displayName])
    @@ SpreadIf(Has(m, "description"), [description |-> m.description])
    @@ SpreadIf(Has(m, "version"), [version |-> m.version])
    @@ SpreadIf(Has(m, "inputTokenLimit"), [inputTokenLimit |-> m.inputTokenLimit])
    @@ SpreadIf(Has(m, "outputTokenLimit"), [outputTokenLimit |-> m.outputTokenLimit])

\* (json.models ?? []).map(...)
MappedModels(json) ==
  IF Has(json, "models")
    THEN [i \in 1..Len(json.models) |-> MapModel(json.models[i])]
    ELSE << >>

\* A mutant of Haystack: the text is not lowercased.
HaystackCaseSensitive(model) ==
  model.name \o <<" ">>
    \o (IF Has(model, "displayName") THEN model.displayName ELSE << >>)
    \o <<" ">>
    \o (IF Has(model, "description") THEN model.description ELSE << >>)

\* `${model.name} ${model.displayName ?? ''} ${model.description ?? ''}`.toLowerCase()
Haystack(model) ==
  ToLowerCase(model.name \o <<" ">>
              \o (IF Has(model, "displayName") THEN model.displayName ELSE << >>)
              \o <<" ">>
              \o (IF Has(model, "description") THEN model.description ELSE << >>))

IsImageModel(model) == Includes(Haystack(model), <<"i", "m", "a", "g", "e">>)

\* What listModels returns for a successful response body.
ListModelsResult(json, options) ==
  IF ~(Has(options, "imageOnly") /\ options.imageOnly)
    THEN MappedModels(json)
    ELSE SelectSeq(MappedModels(json), IsImageModel)

-----------------------------------------------------------------------------
(* Calls of the client's methods.                                          *)

CallIds == 1..NumCalls

\* A call that has not been made.  nsent, nfs and nwrites count the fetches,
\* the file accesses (exists, arrayBuffer) and the Bun.write calls it made.
IdleCall ==
  [pc |-> "idle", op |-> "none", args |-> EmptyObj, model |-> << >>,
   mime |-> "", inlineParts |-> << >>, i |-> 1,
   req |-> EmptyObj, res |-> EmptyObj, image |-> EmptyObj,
   outcome |-> [kind |-> "pending"],
   nsent |-> 0, nfs |-> 0, nwrites |-> 0]

Throw(c, error) ==
  [call[c] EXCEPT !.pc = "done", !.outcome = [kind |-> "threw", error |-> error]]

Return(c, value) ==
  [call[c] EXCEPT !.pc = "done", !.outcome = [kind |-> "returned", value |-> value]]

\* The record generateImage, editImage and generateFromReferences return.
GeneratedImageResult(outputPath, image) ==
  [outputPath |-> outputPath,
   mimeType |-> image.mimeType,
   model |-> image.model,
   prompt |-> image.prompt]
    @@ SpreadIf(Has(image, "textResponse"), [textResponse |-> image.textResponse])

\* getModel: () => config.model
getModel ==
  /\ got' = [called |-> TRUE, value |-> config.model]
  /\ UNCHANGED <<config, fs, call, xin, xout>>

\* generateImageBase64 up to its fetch.
generateImageBase64(c, prompt, options) ==
  /\ call[c].pc = "idle"
  /\ LET model == ResolveModel(options)
         body == generateBody(prompt, options)
     IN  call' = [call EXCEPT ![c] =
                    [@ EXCEPT !.pc = "fetch",
                              !.op = "generateImageBase64",
                              !.args = [prompt |-> prompt, options |-> options],
                              !.model = model,
                              !.req = GenerateContentRequest(model, body),
                              !.nsent = @ + 1]]
  /\ UNCHANGED <<config, fs, got, xin, xout>>

\* generateImage up to the fetch of the generateImageBase64 it awaits.
generateImage(c, prompt, outputPath, options) ==
  /\ call[c].pc = "idle"
  /\ LET model == ResolveModel(options)
         body == generateBody(prompt, options)
     IN  call' = [call EXCEPT ![c] =
                    [@ EXCEPT !.pc = "fetch",
                              !.op = "generateImage",
                              !.args = [prompt |-> prompt, outputPath |-> outputPath,
                                        options |-> options],
                              !.model = model,
                              !.req = GenerateContentRequest(model, body),
                              !.nsent = @ + 1]]
  /\ UNCHANGED <<config, fs, got, xin, xout>>

\* editImage up to await inputFile.exists()
editImage(c, inputPath, prompt, outputPath, options) ==
  /\ call[c].pc = "idle"
  /\ call' = [call EXCEPT ![c] =
                [@ EXCEPT !.pc = "exists",
                          !.op = "editImage",
                          !.args = [inputPath |-> inputPath, prompt |-> prompt,
                                    outputPath |-> outputPath, options |-> options],
                          !.model = ResolveModel(options)]]
  /\ UNCHANGED <<config, fs, got, xin, xout>>

\* editImage from the result of exists() to await inputFile.arrayBuffer()
EditExists(c) ==
  /\ call[c].pc = "exists"
  /\ call[c].op = "editImage"
  /\ LET a == call[c].args
     IN  call' = [call EXCEPT ![c] =
                    IF ~FileExists(a.inputPath)
                      THEN [Throw(c, [kind |-> "notfound", path |-> a.inputPath])
                              EXCEPT !.nfs = @ + 1]
                      ELSE [@ EXCEPT !.pc = "read",
                                     !.mime = InputMimeType(a.options, a.inputPath),
                                     !.nfs = @ + 1]]
  /\ UNCHANGED <<config, fs, got, xin, xout>>

\* editImage from the bytes read to the fetch
EditRead(c) ==
  /\ call[c].pc = "read"
  /\ call[c].op = "editImage"
  /\ LET a == call[c].args
         inputBase64 == Base64Encode(fs[a.inputPath].bytes)
         body == editBody(a.prompt, call[c].mime, inputBase64, a.options)
     IN  call' = [call EXCEPT ![c] =
                    [@ EXCEPT !.pc = "fetch",
                              !.req = GenerateContentRequest(call[c].model, body),
                              !.nfs = @ + 1,
                              !.nsent = @ + 1]]
  /\ UNCHANGED <<config, fs, got, xin, xout>>

\* generateFromReferences up to the first await file.exists()
generateFromReferences(c, inputPaths, prompt, outputPath, options) ==
  /\ call[c].pc = "idle"
  /\ LET entered ==
           [call[c] EXCEPT !.op = "generateFromReferences",
                           !.args = [inputPaths |-> inputPaths, prompt |-> prompt,
                                     outputPath |-> outputPath, options |-> options],
                           !.model = ResolveModel(options)]
     IN  call' = [call EXCEPT ![c] =
                    IF Len(inputPaths) = 0
                      THEN [entered EXCEPT
                              !.pc = "done",
                              !.outcome = [kind |-> "threw",
                                           error |-> [kind |-> "invalidarg",
                                                      message |-> "inputPaths cannot be empty."]]]
                    ELSE IF Len(inputPaths) > MaxRefs
                      THEN [entered EXCEPT
                              !.pc = "done",
                              !.outcome = [kind |-> "threw",
                                           error |-> [kind |-> "invalidarg",
                                                      message |-> "Maximum 14 reference images are supported."]]]
                    ELSE [entered EXCEPT !.pc = "exists", !.inlineParts = << >>, !.i = 1]]
  /\ UNCHANGED <<config, fs, got, xin, xout>>

\* generateFromReferences, in the loop: from the result of exists() to
\* await file.arrayBuffer()
RefExists(c) ==
  /\ call[c].pc = "exists"
  /\ call[c].op = "generateFromReferences"
  /\ LET a == call[c].args
         path == a.inputPaths[call[c].i]
     IN  call' = [call EXCEPT ![c] =
                    IF ~FileExists(path)
                      THEN [Throw(c, [kind |-> "notfound", path |-> path])
                              EXCEPT !.nfs = @ + 1]
                      ELSE [@ EXCEPT !.pc = "read",
                                     !.mime = InputMimeType(a.options, path),
                                     !.nfs = @ + 1]]
  /\ UNCHANGED <<config, fs, got, xin, xout>>

\* generateFromReferences, in the loop: from the bytes read to the next
\* exists(), or after the last path to the fetch
RefRead(c) ==
  /\ call[c].pc = "read"
  /\ call[c].op = "generateFromReferences"
  /\ LET a == call[c].args
         path == a.inputPaths[call[c].i]
         data == Base64Encode(fs[path].bytes)
         inlineParts ==
           Append(call[c].inlineParts,
                  [inlineData |-> [mimeType |-> call[c].mime, data |-> data]])
         body == referencesBody(a.prompt, inlineParts, a.options)
     IN  call' = [call EXCEPT ![c] =
                    IF call[c].i < Len(a.inputPaths)
                      THEN [@ EXCEPT !.pc = "exists",
                                     !.inlineParts = inlineParts,
                                     !.i = @ + 1,
                                     !.nfs = @ + 1]
                      ELSE [@ EXCEPT !.pc = "fetch",
                                     !.inlineParts = inlineParts,
                                     !.req = GenerateContentRequest(call[c].model, body),
                                     !.nfs = @ + 1,
                                     !.nsent = @ + 1]]
  /\ UNCHANGED <<config, fs, got, xin, xout>>

\* listModels up to its fetch
listModels(c, options) ==
  /\ call[c].pc = "idle"
  /\ call' = [call EXCEPT ![c] =
                [@ EXCEPT !.pc = "fetch",
                          !.op = "listModels",
                          !.args = [options |-> options],
                          !.req = ListModelsRequest(options),
                          !.nsent = @ + 1]]
  /\ UNCHANGED <<config, fs, got, xin, xout>>

\* A mutant of Ok: every status counts as a success.
OkAlways(status) == TRUE

\* res.ok
Ok(status) == status \in 200..299

\* A mutant of FetchSettle: a request that failed in transport is sent again.
FetchSettleRetry(c, settled) ==
  /\ call[c].pc = "fetch"
  /\ call' = [call EXCEPT ![c] =
                IF settled.kind = "reject"
                  THEN [@ EXCEPT !.nsent = @ + 1]
                  ELSE [@ EXCEPT !.pc = "json",
                                 !.res = [status |-> settled.status,
                                          ok |-> Ok(settled.status),
                                          body |-> settled.body]]]
  /\ UNCHANGED <<config, fs, got, xin, xout>>

\* await fetch(...) settles: the promise rejects (no response) or resolves
\* with a response.
FetchSettle(c, settled) ==
  /\ call[c].pc = "fetch"
  /\ call' = [call EXCEPT ![c] =
                IF settled.kind = "reject"
                  THEN Throw(c, [kind |-> "transport"])
                  ELSE [@ EXCEPT !.pc = "json",
                                 !.res = [status |-> settled.status,
                                          ok |-> Ok(settled.status),
                                          body |-> settled.body]]]
  /\ UNCHANGED <<config, fs, got, xin, xout>>

\* geminiGenerateContent from await res.json() on, and what its caller does
\* with the response up to its next await.
GeminiJson(c) ==
  /\ call[c].pc = "json"
  /\ call[c].op \in {"generateImageBase64", "generateImage", "editImage",
                     "generateFromReferences"}
  /\ LET res == call[c].res
         extracted ==
           extractImageFromResponse(res.body.value, call[c].model, call[c].args.prompt)
     IN  call' = [call EXCEPT ![c] =
                    IF ~res.body.json
                      THEN Throw(c, [kind |-> "syntax"])
                    ELSE IF ~res.ok
                      THEN Throw(c, [kind |-> "api", api |-> "Gemini API error",
                                     status |-> res.status,
                                     body |-> JSONStringify(res.body.value)])
                    ELSE IF extracted.kind = "throw"
                      THEN Throw(c, extracted.error)
                    ELSE IF call[c].op = "generateImageBase64"
                      THEN Return(c, extracted.value)
                    ELSE [@ EXCEPT !.pc = "write", !.image = extracted.value]]
  /\ UNCHANGED <<config, fs, got, xin, xout>>

\* listModels from await res.json() on
ListModelsJson(c) ==
  /\ call[c].pc = "json"
  /\ call[c].op = "listModels"
  /\ LET res == call[c].res
     IN  call' = [call EXCEPT ![c] =
                    IF ~res.body.json
                      THEN Throw(c, [kind |-> "syntax"])
                    ELSE IF ~res.ok
                      THEN Throw(c, [kind |-> "api", api |-> "Gemini models API error",
                                     status |-> res.status,
                                     body |-> JSONStringify(res.body.value)])
                    ELSE Return(c, ListModelsResult(res.body.value,
                                                    call[c].args.options))]
  /\ UNCHANGED <<config, fs, got, xin, xout>>

\* await Bun.write(outputPath, Buffer.from(image.base64Data, 'base64')) and
\* the return after it; the write itself may fail.
BunWrite(c, written) ==
  /\ call[c].pc = "write"
  /\ LET a == call[c].args
         image == call[c].image
     IN  IF written
           THEN /\ fs' = [fs EXCEPT ![a.outputPath] =
                            [exists |-> TRUE,
                             bytes |-> Base64Decode(image.base64Data)]]
                /\ call' = [call EXCEPT ![c] =
                              [Return(c, GeneratedImageResult(a.outputPath, image))
                                 EXCEPT !.nwrites = @ + 1]]
           ELSE /\ fs' = fs
                /\ call' = [call EXCEPT ![c] = Throw(c, [kind |-> "io"])]
  /\ UNCHANGED <<config, got, xin, xout>>

\* The caller makes another call after one has settled.
Reuse(c) ==
  /\ call[c].pc = "done"
  /\ call' = [call EXCEPT ![c] = IdleCall]
  /\ UNCHANGED <<config, fs, got, xin, xout>>

-----------------------------------------------------------------------------
(* The extractor applied to a response on its own (SpecExtract).           *)

NoInput == [data |-> EmptyObj, model |-> << >>, prompt |-> ""]

Extract ==
  /\ xout.kind = "none"
  /\ xout' = extractImageFromResponse(xin.data, xin.model, xin.prompt)
  /\ UNCHANGED <<config, fs, call, got, xin>>

-----------------------------------------------------------------------------
(* Inputs: arguments of the calls and responses of the server.             *)

Prompts == {"draw a cat", "make it blue"}

InputPaths == {"/in/a.png", "/in/b.jpg", "/in/c", "/in/none.png"}

OutputPaths == {"/out/o.png", "/in/a.png"}

ModelM2 == <<" ", "m", "/", "2", " ">>

GenOptions ==
  {EmptyObj,
   [model |-> <<" ", "\t">>],
   [model |-> ModelM2],
   [includeText |-> TRUE],
   [includeText |-> FALSE],
   [enableSearchGrounding |-> FALSE, aspectRatio |-> "1:1"],
   [model |-> ModelM2, includeText |-> FALSE, aspectRatio |-> "16:9",
    imageSize |-> "2K", mimeType |-> "image/png",
    enableSearchGrounding |-> TRUE]}

EditOptions ==
  GenOptions \cup
    {[inputMimeType |-> "image/webp"],
     [inputMimeType |-> "", model |-> <<"m", "3">>]}

ListOptions ==
  {EmptyObj,
   [imageOnly |-> TRUE],
   [imageOnly |-> FALSE, pageSize |-> 100],
   [imageOnly |-> TRUE, pageSize |-> 0]}

\* Reference lists: every list of up to MaxShortRefs paths, and for each
\* greater length up to MaxRefs + ExtraRefs one list of existing files and
\* one whose last file is missing.
RefCycle == <<"/in/a.png", "/in/b.jpg", "/in/c">>

LongList(n) == [i \in 1..n |-> RefCycle[((i - 1) % Len(RefCycle)) + 1]]

LongMissing(n) == [LongList(n) EXCEPT ![n] = "/in/none.png"]

RefLists ==
  UNION {[1..n -> InputPaths] : n \in 0..MaxShortRefs}
    \cup {LongList(n) : n \in (MaxShortRefs + 1)..(MaxRefs + ExtraRefs)}
    \cup {LongMissing(n) : n \in (MaxShortRefs + 1)..(MaxRefs + ExtraRefs)}

DataQQ == <<"Q", "Q", "=", "=">>

DataQUI == <<"Q", "U", "I", "=">>

PngPart == [inlineData |-> [mimeType |-> "image/png", data |-> DataQQ]]

JpegPart == [inlineData |-> [mimeType |-> "image/jpeg", data |-> DataQUI]]

BlankText == [text |-> <<" ", " ">>]

Caption == [text |-> <<"c", "a", "p">>]

\* The parts a response is made of.
PartKinds ==
  {BlankText,
   Caption,
   [text |-> <<" ", "h", "i", "\n">>],
   [text |-> << >>],
   PngPart,
   JpegPart,
   [inlineData |-> [mimeType |-> "image/png", data |-> << >>]],
   [inlineData |-> [mimeType |-> "", data |-> DataQQ]],
   [inlineData |-> [data |-> DataQUI]],
   [text |-> <<"b", "o", "t", "h">>,
    inlineData |-> [mimeType |-> "image/webp", data |-> DataQUI]],
   [thought |-> TRUE]}

WithParts(parts) == [candidates |-> <<[content |-> [parts |-> parts]]>>]

\* Responses given to the extractor on its own.
ExtractResponses ==
  {WithParts(ps) : ps \in UNION {[1..n -> PartKinds] : n \in 0..MaxParts}}
    \cup {EmptyObj,
          [candidates |-> << >>],
          [candidates |-> <<EmptyObj>>],
          [candidates |-> <<[content |-> EmptyObj]>>],
          [candidates |-> <<EmptyObj, [content |-> [parts |-> <<PngPart>>]]>>]}

ExtractInputs ==
  [data : ExtractResponses, model : {DEFAULT_IMAGE_MODEL, <<"m", "3">>},
   prompt : {"draw a cat"}]

ErrorBody == [error |-> [code |-> 500, message |-> "internal"]]

Json(v) == [json |-> TRUE, value |-> v]

NotJson == [json |-> FALSE]

Response(status, body) == [kind |-> "response", status |-> status, body |-> body]

Rejected == [kind |-> "reject"]

\* What the generateContent endpoint may answer.
GenOutcomes ==
  {Rejected,
   Response(200, Json(WithParts(<<BlankText, PngPart, Caption>>))),
   Response(200, Json(WithParts(<<JpegPart>>))),
   Response(200, Json(WithParts(<<Caption>>))),
   Response(200, Json(WithParts(<<[inlineData |-> [data |-> DataQUI]]>>))),
   Response(200, Json(EmptyObj)),
   Response(200, NotJson),
   Response(500, Json(ErrorBody)),
   Response(429, Json(WithParts(<<PngPart>>))),
   Response(502, NotJson)}

Str_image == <<"i", "m", "a", "g", "e">>

\* The entries of a models response.
ModelEntries ==
  {[name |-> <<"m", "o", "d", "e", "l", "s", "/">> \o Str_image \o <<"-", "1">>,
    supportedGenerationMethods |-> <<"generateContent">>],
   [name |-> <<"m", "o", "d", "e", "l", "s", "/", "t", "e", "x", "t">>,
    version |-> "001", inputTokenLimit |-> 4096, outputTokenLimit |-> 1024],
   [name |-> <<"i", "m", "a">>, displayName |-> <<"g", "e">>],
   [name |-> <<"i", "m">>, displayName |-> <<"a">>, description |-> <<"g", "e">>],
   [description |-> <<"A", "n", " ", "I", "m", "a", "g", "e">>],
   [name |-> <<"I", "M", "A", "G", "E", "N">>, displayName |-> <<"x">>],
   [name |-> <<"t", "x", "t">>, displayName |-> <<"I", "m", "a", "G", "e">>],
   [displayName |-> <<"i", "m", "a", "g">>, description |-> <<"e">>]}

ModelLists(max) == UNION {[1..n -> ModelEntries] : n \in 0..max}

ModelBodies(max) ==
  {[models |-> ms] : ms \in ModelLists(max)}
    \cup {[models |-> ms, nextPageToken |-> "page2"] : ms \in ModelLists(max)}
    \cup {EmptyObj, [nextPageToken |-> "page2"]}

\* What the models endpoint may answer.
ListOutcomes(max) ==
  {Rejected, Response(403, Json(ErrorBody)), Response(502, NotJson),
   Response(200, NotJson)}
    \cup {Response(200, Json(b)) : b \in ModelBodies(max)}

-----------------------------------------------------------------------------
(* Specifications.                                                         *)

InitClient ==
  /\ \E env \in Envs : config = getAuthConfig(env)
  /\ fs = InitialFiles
  /\ call = [c \in CallIds |-> IdleCall]
  /\ got = [called |-> FALSE, value |-> << >>]

Init ==
  /\ InitClient
  /\ xin = NoInput
  /\ xout = [kind |-> "none"]

\* The steps of a call that take no input.
Step(c) ==
  \/ EditExists(c)
  \/ EditRead(c)
  \/ RefExists(c)
  \/ RefRead(c)
  \/ GeminiJson(c)
  \/ ListModelsJson(c)
  \/ \E written \in BOOLEAN : BunWrite(c, written)

\* One call on the client, with every argument and every answer of the server.
Next ==
  \/ /\ call[1].pc = "idle"
     /\ \E p \in Prompts, o \in GenOptions : generateImageBase64(1, p, o)
  \/ /\ call[1].pc = "idle"
     /\ \E p \in Prompts, out \in OutputPaths, o \in GenOptions :
          generateImage(1, p, out, o)
  \/ /\ call[1].pc = "idle"
     /\ \E in \in InputPaths, p \in Prompts, out \in OutputPaths, o \in EditOptions :
          editImage(1, in, p, out, o)
  \/ /\ call[1].pc = "idle"
     /\ \E ins \in RefLists, p \in Prompts, out \in OutputPaths, o \in EditOptions :
          generateFromReferences(1, ins, p, out, o)
  \/ /\ call[1].pc = "idle"
     /\ \E o \in ListOptions : listModels(1, o)
  \/ /\ call[1].pc = "fetch"
     /\ \E s \in (IF call[1].op = "listModels" THEN ListOutcomes(1) ELSE GenOutcomes) :
          FetchSettle(1, s)
  \/ Step(1)

Spec == Init /\ [][Next]_vars

\* Model discovery, with every models response up to MaxModels entries.
NextList ==
  \/ \E o \in ListOptions : listModels(1, o)
  \/ \E s \in ListOutcomes(MaxModels) : FetchSettle(1, s)
  \/ ListModelsJson(1)

SpecList == Init /\ [][NextList]_vars

\* The extractor, on every response up to MaxParts parts.
InitExtract ==
  /\ InitClient
  /\ xin \in ExtractInputs
  /\ xout = [kind |-> "none"]

NextExtract == Extract

SpecExtract == InitExtract /\ [][NextExtract]_vars

\* Calls overlapping and following each other on one client, with differing
\* model overrides.
ConcOptions == {EmptyObj, [model |-> ModelM2]}

ConcGenOutcomes == {Response(200, Json(WithParts(<<PngPart>>)))}

ConcListOutcomes ==
  {Response(200, Json([models |-> <<[name |-> Str_image]>>]))}

InitConc ==
  /\ config = getAuthConfig([GEMINI_API_KEY |-> <<"k", "=", "1">>])
  /\ fs = InitialFiles
  /\ call = [c \in CallIds |-> IdleCall]
  /\ got = [called |-> FALSE, value |-> << >>]
  /\ xin = NoInput
  /\ xout = [kind |-> "none"]

NextConc ==
  \/ getModel
  \/ \E c \in CallIds :
       \/ /\ call[c].pc = "idle"
          /\ \E o \in ConcOptions : generateImageBase64(c, "draw a cat", o)
       \/ /\ call[c].pc = "idle"
          /\ \E o \in ConcOptions : generateImage(c, "draw a cat", "/out/o.png", o)
       \/ /\ call[c].pc = "idle"
          /\ \E o \in ConcOptions :
               editImage(c, "/in/a.png", "make it blue", "/out/o.png", o)
       \/ /\ call[c].pc = "idle"
          /\ \E o \in ConcOptions :
               generateFromReferences(c, <<"/in/b.jpg">>, "make it blue",
                                      "/out/o.png", o)
       \/ /\ call[c].pc = "idle"
          /\ listModels(c, EmptyObj)
       \/ /\ call[c].pc = "fetch"
          /\ \E s \in (IF call[c].op = "listModels"
                         THEN ConcListOutcomes ELSE ConcGenOutcomes) :
               FetchSettle(c, s)
       \/ Step(c)
       \/ Reuse(c)

SpecConc == InitConc /\ [][NextConc]_vars

-----------------------------------------------------------------------------
(* Properties.                                                             *)

GenerationOps ==
  {"generateImageBase64", "generateImage", "editImage", "generateFromReferences"}

IsThrown(c, kind) ==
  /\ call[c].pc = "done"
  /\ call[c].outcome.kind = "threw"
  /\ call[c].outcome.error.kind = kind

IsReturned(c) ==
  /\ call[c].pc = "done"
  /\ call[c].outcome.kind = "returned"

\* The input paths of a call of editImage or generateFromReferences.
InputsOf(c) ==
  IF call[c].op = "editImage" THEN <<call[c].args.inputPath>>
  ELSE IF call[c].op = "generateFromReferences" THEN call[c].args.inputPaths
  ELSE << >>

MissingInputs(c) ==
  {i \in 1..Len(InputsOf(c)) : ~InitialFiles[InputsOf(c)[i]].exists}

FirstMissing(c) ==
  InputsOf(c)[CHOOSE i \in MissingInputs(c) : \A j \in MissingInputs(c) : i <= j]

\* C1: when an input file of editImage or generateFromReferences does not
\* exist, the call sends no HTTP request and writes nothing, at any point of
\* its execution, and it ends by throwing: the input-not-found error naming
\* the first missing path, or, when the number of paths is not within 1..14,
\* the invalid-argument error of the count check that comes first.
C1_MissingInputNoRequest ==
  \A c \in CallIds :
    MissingInputs(c) # {} =>
      /\ call[c].nsent = 0
      /\ call[c].nwrites = 0
      /\ fs = InitialFiles
      /\ call[c].pc \in {"exists", "read", "done"}
      /\ call[c].pc = "done" =>
           IF Len(InputsOf(c)) \in 1..14
             THEN /\ IsThrown(c, "notfound")
                  /\ call[c].outcome.error.path = FirstMissing(c)
             ELSE IsThrown(c, "invalidarg")

\* generateFromReferences read 13 files, found the 14th missing and threw.
C1_Witness ==
  /\ call[1].op = "generateFromReferences"
  /\ Len(call[1].args.inputPaths) = 14
  /\ IsThrown(1, "notfound")
  /\ call[1].outcome.error.path = call[1].args.inputPaths[14]
  /\ call[1].nfs = 27
  /\ call[1].nsent = 0

\* C2: generateFromReferences with no path or with more than 14 paths throws
\* the invalid-argument error at once, having accessed no file, sent no
\* request and written nothing; with 1 to 14 paths it never throws that error
\* and goes on to the files.
C2_ReferenceCount ==
  \A c \in CallIds :
    call[c].op = "generateFromReferences" =>
      IF Len(call[c].args.inputPaths) \in 1..14
        THEN /\ ~IsThrown(c, "invalidarg")
             /\ call[c].pc = "done" => call[c].nfs >= 1
        ELSE /\ IsThrown(c, "invalidarg")
             /\ call[c].nfs = 0
             /\ call[c].nsent = 0
             /\ call[c].nwrites = 0
             /\ fs = InitialFiles

\* A list of 15 existing files was rejected.
C2_Witness ==
  /\ call[1].op = "generateFromReferences"
  /\ Len(call[1].args.inputPaths) = 15
  /\ \A i \in 1..15 : InitialFiles[call[1].args.inputPaths[i]].exists
  /\ IsThrown(1, "invalidarg")

\* A parts sequence from which an image can be taken: its first part with
\* non-empty inline data has a MIME type.
FirstDataPart(parts) ==
  CHOOSE i \in 1..Len(parts) :
    /\ Has(parts[i], "inlineData")
    /\ Has(parts[i].inlineData, "data")
    /\ Len(parts[i].inlineData.data) > 0
    /\ \A j \in 1..(i - 1) :
         ~(/\ Has(parts[j], "inlineData")
           /\ Has(parts[j].inlineData, "data")
           /\ Len(parts[j].inlineData.data) > 0)

HasDataPart(parts) ==
  \E i \in 1..Len(parts) :
    /\ Has(parts[i], "inlineData")
    /\ Has(parts[i].inlineData, "data")
    /\ Len(parts[i].inlineData.data) > 0

HasMimeType(part) ==
  /\ Has(part.inlineData, "mimeType")
  /\ part.inlineData.mimeType # ""

\* The parts of the first candidate of a response, none when it has no
\* candidate, no content or no parts.
FirstCandidateParts(data) ==
  IF ~Has(data, "candidates") THEN << >>
  ELSE IF data.candidates = << >> THEN << >>
  ELSE IF ~Has(Head(data.candidates), "content") THEN << >>
  ELSE IF ~Has(Head(data.candidates).content, "parts") THEN << >>
  ELSE Head(data.candidates).content.parts

HasImage(data) ==
  /\ HasDataPart(FirstCandidateParts(data))
  /\ HasMimeType(FirstCandidateParts(data)[FirstDataPart(FirstCandidateParts(data))])

\* C3: generateImage, editImage and generateFromReferences write the output
\* file only after a response with a success status from which an image was
\* extracted; a call that throws an argument, missing-input, API or no-image
\* error (or a transport or parse error) has written nothing, the files are
\* as before the call, and it returns no result.
C3_NoPartialResult ==
  /\ \A c \in CallIds :
       /\ (call[c].nwrites > 0 \/ call[c].pc = "write") =>
            /\ call[c].nsent = 1
            /\ call[c].res # EmptyObj
            /\ call[c].res.status \in 200..299
            /\ call[c].res.body.json
            /\ HasImage(call[c].res.body.value)
       /\ (\E k \in {"invalidarg", "notfound", "api", "noimage", "transport", "syntax"} :
             IsThrown(c, k)) =>
            /\ call[c].nwrites = 0
            /\ fs = InitialFiles
            /\ ~Has(call[c].outcome, "value")
  /\ fs # InitialFiles => \E c \in CallIds : IsReturned(c) /\ call[c].nwrites = 1

\* generateImage got a success response with text only and threw the no-image
\* error without writing.
C3_Witness ==
  /\ call[1].op = "generateImage"
  /\ IsThrown(1, "noimage")
  /\ call[1].res.status = 200
  /\ call[1].nsent = 1
  /\ call[1].nwrites = 0
  /\ ~fs[call[1].args.outputPath].exists

\* C4: after a response with a non-success status, from either endpoint, the
\* call fails with the API error carrying the status and the serialized
\* body; after a success status no API error is thrown and the body, once
\* parsed, goes to the extraction step.
C4_ApiErrorCarriesStatus ==
  \A c \in CallIds :
    (call[c].pc \in {"write", "done"} /\ call[c].res # EmptyObj) =>
      IF call[c].res.status \in 200..299
        THEN /\ ~IsThrown(c, "api")
             /\ (call[c].res.body.json /\ call[c].op \in GenerationOps) =>
                  IF HasImage(call[c].res.body.value)
                    THEN ~IsThrown(c, "noimage")
                    ELSE IsThrown(c, "noimage")
        ELSE /\ IsThrown(c, "api")
             /\ call[c].outcome.error.status = call[c].res.status
             /\ call[c].res.body.json
             /\ call[c].outcome.error.body = [serialized |-> call[c].res.body.value]

\* C5: the extractor throws exactly when the parts of the first candidate
\* have no part with non-empty inline data, or the first such part has no
\* MIME type (none, or an empty one); the error carries the model ID and the
\* raw response.  Responses of text-only parts, and responses with no
\* candidates or no parts, throw.
C5_NoImageError ==
  xout.kind # "none" =>
    /\ (xout.kind = "throw") <=> ~HasImage(xin.data)
    /\ xout.kind = "throw" =>
         /\ xout.error.kind = "noimage"
         /\ xout.error.model = xin.model
         /\ xout.error.raw = [serialized |-> xin.data]
    /\ (\A i \in 1..Len(FirstCandidateParts(xin.data)) :
          ~Has(FirstCandidateParts(xin.data)[i], "inlineData")) =>
         xout.kind = "throw"

\* The first part with data has no MIME type although a later part is a
\* complete image, and the extractor threw.
C5_Witness ==
  /\ xout.kind = "throw"
  /\ Len(FirstCandidateParts(xin.data)) = 3
  /\ FirstCandidateParts(xin.data)[1] = Caption
  /\ FirstCandidateParts(xin.data)[2] = [inlineData |-> [data |-> DataQUI]]
  /\ FirstCandidateParts(xin.data)[3] = PngPart

\* The first part whose text is not blank: 0 when there is none.
FirstTextPart(parts) ==
  IF \E i \in 1..Len(parts) : Has(parts[i], "text") /\ Trim(parts[i].text) # << >>
    THEN CHOOSE i \in 1..Len(parts) :
           /\ Has(parts[i], "text") /\ Trim(parts[i].text) # << >>
           /\ \A j \in 1..(i - 1) :
                ~(Has(parts[j], "text") /\ Trim(parts[j].text) # << >>)
    ELSE 0

\* C6: the image returned is that of the first part, in sequence order, with
\* non-empty inline data, and textResponse is the text of the first part
\* whose text is not blank, absent when there is none; each scan is on its
\* own, so the text part may be before or after the image part.
C6_ExtractionPrecedence ==
  xout.kind = "ok" =>
    LET parts == FirstCandidateParts(xin.data)
        img == parts[FirstDataPart(parts)]
        txt == FirstTextPart(parts)
    IN  /\ xout.value.mimeType = img.inlineData.mimeType
        /\ xout.value.base64Data = img.inlineData.data
        /\ xout.value.model = xin.model
        /\ xout.value.prompt = xin.prompt
        /\ IF txt = 0
             THEN ~Has(xout.value, "textResponse")
             ELSE /\ Has(xout.value, "textResponse")
                  /\ xout.value.textResponse = parts[txt].text

\* Blank text, image, caption: the image of the second part and the caption.
C6_Witness ==
  /\ xout.kind = "ok"
  /\ FirstCandidateParts(xin.data) = <<BlankText, PngPart, Caption>>
  /\ xout.value.base64Data = DataQQ
  /\ xout.value.textResponse = <<"c", "a", "p">>

\* The parts of the request a call has sent.
SentParts(c) == call[c].req.body.serialized.contents[1].parts

\* C7: the parts of every generateContent request are the text part with the
\* prompt, then one inline-data part per reference, in the order given: one
\* part for generateImageBase64 and generateImage, two for editImage,
\* Len(inputPaths) + 1 for generateFromReferences.
C7_PartsOrder ==
  \A c \in CallIds :
    (call[c].nsent > 0 /\ call[c].op # "listModels") =>
      /\ Len(call[c].req.body.serialized.contents) = 1
      /\ Len(SentParts(c)) = Len(InputsOf(c)) + 1
      /\ SentParts(c)[1] = [text |-> call[c].args.prompt]
      /\ \A i \in 1..Len(InputsOf(c)) :
           /\ DOMAIN SentParts(c)[i + 1] = {"inlineData"}
           /\ SentParts(c)[i + 1].inlineData.data =
                Base64Encode(InitialFiles[InputsOf(c)[i]].bytes)
      /\ call[c].op \in {"generateImageBase64", "generateImage"} =>
           Len(SentParts(c)) = 1
      /\ call[c].op = "editImage" => Len(SentParts(c)) = 2

\* 14 references: a request of 15 parts.
C7_Witness ==
  /\ call[1].op = "generateFromReferences"
  /\ Len(call[1].args.inputPaths) = 14
  /\ call[1].pc = "fetch"
  /\ Len(SentParts(1)) = 15
  /\ SentParts(1)[2].inlineData.data # SentParts(1)[3].inlineData.data

Field(m, f) == IF Has(m, f) THEN m[f] ELSE << >>

\* The entries of the response, mapped.
MappedEntries(c) ==
  LET json == call[c].res.body.value
  IN  IF Has(json, "models")
        THEN [i \in 1..Len(json.models) |-> MapModel(json.models[i])]
        ELSE << >>

ImageOnly(c) ==
  Has(call[c].args.options, "imageOnly") /\ call[c].args.options.imageOnly

\* name + displayName + description, lowercased, contains "image"
ConcatHasImage(m) ==
  Includes(ToLowerCase(Field(m, "name") \o Field(m, "displayName")
                         \o Field(m, "description")),
           Str_image)

\* name, displayName and description joined by single spaces, lowercased,
\* contains "image"
JoinedHasImage(m) ==
  \E f \in {"name", "displayName", "description"} :
    Includes(ToLowerCase(Field(m, f)), Str_image)

\* C8 as stated: with imageOnly, listModels returns the mapped entries whose
\* lowercase concatenation of name + displayName + description contains
\* "image"; without it, every mapped entry; with one GET request.
C8_AsStated ==
  \A c \in CallIds :
    (call[c].op = "listModels" /\ IsReturned(c)) =>
      /\ call[c].outcome.value =
           IF ImageOnly(c) THEN SelectSeq(MappedEntries(c), ConcatHasImage)
           ELSE MappedEntries(c)
      /\ call[c].nsent = 1

\* C8, amended: with imageOnly, listModels returns, in response order, the
\* mapped entries for which the lowercase text of name, displayName and
\* description joined by single spaces contains "image" (so a match never
\* spans two fields); without it, every mapped entry; it sends exactly one
\* GET request, also when the response has a nextPageToken.
C8_ImageFilter ==
  \A c \in CallIds :
    /\ call[c].op = "listModels" =>
         /\ call[c].nsent = 1
         /\ call[c].req.method = "GET"
    /\ (call[c].op = "listModels" /\ IsReturned(c)) =>
         call[c].outcome.value =
           IF ImageOnly(c) THEN SelectSeq(MappedEntries(c), JoinedHasImage)
           ELSE MappedEntries(c)

\* imageOnly, a response with a nextPageToken: the entry whose fields have
\* "image" only across name and displayName is left out.
C8_Witness ==
  /\ call[1].op = "listModels"
  /\ IsReturned(1)
  /\ ImageOnly(1)
  /\ Has(call[1].res.body.value, "nextPageToken")
  /\ Len(MappedEntries(1)) = 2
  /\ MappedEntries(1)[1].name = <<"i", "m", "a">>
  /\ MappedEntries(1)[2].name = <<"I", "M", "A", "G", "E", "N">>
  /\ Len(call[1].outcome.value) = 1
  /\ call[1].nsent = 1

\* C9: a call of a generation method never sends more than one request; once
\* past its local checks it has sent exactly one, and when it has settled,
\* whatever the failure (status, transport, no image), it still has sent one;
\* after the response nothing holds the call back from settling.
C9_OneRequest ==
  \A c \in CallIds :
    call[c].op \in GenerationOps =>
      /\ call[c].nsent <= 1
      /\ call[c].pc \in {"json", "write"} => ENABLED Step(c)
      /\ call[c].pc \in {"fetch", "json", "write"} => call[c].nsent = 1
      /\ (call[c].pc = "done"
            /\ ~IsThrown(c, "invalidarg") /\ ~IsThrown(c, "notfound")) =>
           call[c].nsent = 1
      /\ (IsThrown(c, "invalidarg") \/ IsThrown(c, "notfound")) =>
           call[c].nsent = 0

\* The request of editImage failed in transport and the call has settled
\* with one request sent.
C9_Witness ==
  /\ call[1].op = "editImage"
  /\ IsThrown(1, "transport")
  /\ call[1].nsent = 1

\* The model a call is to use: its override trimmed, if that is not empty,
\* else the model the client was configured with.
ConfiguredModel == DEFAULT_IMAGE_MODEL

EffectiveModel(c) ==
  LET o == call[c].args.options
  IN  IF Has(o, "model") /\ Trim(o.model) # << >> THEN Trim(o.model)
      ELSE ConfiguredModel

\* C10: with calls overlapping and following each other on one client, the
\* request URL and the result of each call carry that call's own effective
\* model, the configuration stays as constructed, and getModel returns the
\* configured model.
C10_ModelPerCall ==
  /\ config.model = ConfiguredModel
  /\ got.called => got.value = ConfiguredModel
  /\ \A c \in CallIds :
       call[c].op \in GenerationOps =>
         /\ call[c].model = EffectiveModel(c)
         /\ call[c].nsent > 0 =>
              call[c].req.url.model = encodeURIComponent(EffectiveModel(c))
         /\ IsReturned(c) => call[c].outcome.value.model = EffectiveModel(c)

\* Two calls in flight with different models, one settled with its own, after
\* getModel was called.
C10_Witness ==
  /\ got.called
  /\ IsReturned(1)
  /\ call[1].op = "generateImage"
  /\ call[1].outcome.value.model = <<"m", "/", "2">>
  /\ call[2].pc = "fetch"
  /\ call[2].op = "editImage"
  /\ call[2].req.url.model = encodeURIComponent(DEFAULT_IMAGE_MODEL)
  /\ fs["/out/o.png"].exists

\* The responseModalities of the request a call has sent.
SentModalities(c) ==
  call[c].req.body.serialized.generationConfig.responseModalities

\* C11: in the body of every generateContent request, whichever of
\* generateImageBase64, generateImage, editImage and generateFromReferences
\* built it, responseModalities includes IMAGE: it is IMAGE then TEXT when
\* includeText is unset or true, and IMAGE alone when includeText is false.
C11_ResponseModalities ==
  \A c \in CallIds :
    (call[c].op \in GenerationOps /\ call[c].nsent > 0) =>
      LET o == call[c].args.options
      IN  /\ \E i \in 1..Len(SentModalities(c)) : SentModalities(c)[i] = "IMAGE"
          /\ ~Has(o, "includeText") => SentModalities(c) = <<"IMAGE", "TEXT">>
          /\ (Has(o, "includeText") /\ o.includeText) =>
               SentModalities(c) = <<"IMAGE", "TEXT">>
          /\ (Has(o, "includeText") /\ ~o.includeText) =>
               SentModalities(c) = <<"IMAGE">>

\* generateFromReferences with includeText false sent a request asking for
\* IMAGE alone.
C11_Witness ==
  /\ call[1].op = "generateFromReferences"
  /\ call[1].pc = "fetch"
  /\ Has(call[1].args.options, "includeText")
  /\ ~call[1].args.options.includeText
  /\ ~Has(call[1].args.options, "model")
  /\ SentModalities(1) = <<"IMAGE">>

====
